---- MODULE Spec2Model ----
(***************************************************************************)
(* py-nosql: an embedded document store on an LSM engine.                  *)
(*                                                                         *)
(*   storage/wal.py      WAL        append_put, replay, reset, close       *)
(*   storage/sstable.py  SSTable    __init__, write, get                   *)
(*   storage/lsm.py      LSMEngine  put, delete, get, flush, compact, close*)
(*   document/schema.py  Schema     validate, register                     *)
(*   document/collection.py Collection insert, get, update, _scan_docs     *)
(*   document/store.py   DocumentStore                                     *)
(*                                                                         *)
(* Every action is one whole call of a public operation, exceptions        *)
(* included: an operation that raises is a step whose effect is what the   *)
(* code had done before the raise.  Four statements  of the source raise   *)
(* on every execution (CPython 3, checked by running the code):            *)
(*   sstable.py:12  self.index = Dict[str, int] = {}     TypeError         *)
(*   sstable.py:20  index = Dict[str, int] = {}          TypeError         *)
(*       (a chained assignment whose second target subscripts typing.Dict) *)
(*   lsm.py:32      self.wal.append_del(key)             AttributeError    *)
(*       (class WAL defines append_put, replay, reset, close only)         *)
(*   collection.py:76  if self.model_cls:                AttributeError    *)
(*       (Collection never assigns model_cls)                              *)
(***************************************************************************)
EXTENDS Integers, Sequences, FiniteSets, TLC

VARIABLES
    wal,          \* lines of <dir>/wal.log, oldest first
    walOpen,      \* the engine's WAL file handle is open
    memtable,     \* LSMEngine.memtable: a dict, as <<key, value>> in insertion order
    sstables,     \* LSMEngine.sstables: list of SSTable objects, oldest first
    sstFiles,     \* the sst_*.jsonl files of the data directory
    uniqueValues, \* Schema._unique_values of each collection's schema
    last,         \* the operation called by the last step and how it ended
    latest,       \* per key, the latest write called on the open engine
    flushed       \* a flush of a non-empty memtable has been called

vars == <<wal, walOpen, memtable, sstables, sstFiles, uniqueValues,
          last, latest, flushed>>

engine == <<wal, walOpen, memtable, sstables, sstFiles>>
ghost  == <<latest, flushed>>

(***************************************************************************)
(* Bounds                                                                  *)
(***************************************************************************)
MaxWal == 2          \* at most this many records are appended to wal.log

\* memtable_limit, the parameter of LSMEngine.__init__ (default 2000)
MemtableLimit == 2

(***************************************************************************)
(* Python values                                                           *)
(***************************************************************************)
\* Optional[x]: None is <<>>, a present x is <<x>>.
None == <<>>
Some(x) == <<x>>

\* Values of document fields.
StrV(s) == [str |-> s]
IntV(n) == [int |-> n]
NoneVal == [none |-> TRUE]
IsStr(v) == DOMAIN v = {"str"}
IsInt(v) == DOMAIN v = {"int"}

\* Collection names, as their characters, and the document identifiers used
\* with each.  The two names are free of ":" and one is a prefix of the
\* other: the users collection is named "us", the files collection "u".
Users == <<"u", "s">>
Files == <<"u">>
Names == {Users, Files}
Ids(name) == IF name = Users THEN {"1", "2"} ELSE {"1"}

\* Faulty variant of the prefix: the name without the ":".
PrefixNoColon(name) == name

\* Collection.__init__: self.prefix = name + ":"
Prefix(name) == name \o <<":">>
\* Collection._k: prefix + doc_id
K(name, id) == Prefix(name) \o <<id>>

\* str.startswith
StartsWith(k, p) == Len(k) >= Len(p) /\ SubSeq(k, 1, Len(p)) = p

\* The engine keys of the model.
Keys == {K(n, i) : n \in Names, i \in {"1", "2"}} \ {K(Files, "2")}

(***************************************************************************)
(* dict (insertion ordered) as a sequence of <<key, value>>                *)
(***************************************************************************)
DictKeys(d) == {d[i][1] : i \in 1..Len(d)}
DictHas(d, k) == k \in DictKeys(d)
DictGet(d, k) == d[CHOOSE i \in 1..Len(d) : d[i][1] = k][2]
\* d[k] = v: an existing key keeps its position, a new key goes last.
DictSet(d, k, v) ==
    IF DictHas(d, k)
    THEN [i \in 1..Len(d) |-> IF d[i][1] = k THEN <<k, v>> ELSE d[i]]
    ELSE Append(d, <<k, v>>)

(***************************************************************************)
(* storage/wal.py                                                          *)
(***************************************************************************)
\* json.dumps(rec) + "\n" with rec = {"op": "put", "key": key, "value": value}.
\* A JSON line is held as its list of members; JSON null is None.
WalLine(op, key, value) == <<<<"op", op>>, <<"key", key>>, <<"value", value>>>>

\* json.loads(line)[name]; rec.get(name) is None when the member is missing.
JsonGet(line, name) ==
    IF \E i \in 1..Len(line) : line[i][1] = name
    THEN line[CHOOSE i \in 1..Len(line) : line[i][1] = name][2]
    ELSE None

\* Faulty variant of append_put: the record is written without its value member.
AppendPutNoValue(w, key, value) == Append(w, <<<<"op", "put">>, <<"key", key>>>>)

\* WAL.append_put: write the line, flush, fsync.
AppendPut(w, key, value) == Append(w, WalLine("put", key, value))

\* A line cut short by the loss of the process inside f.write: a proper,
\* non-empty prefix of a record's text, which json.loads cannot parse.
TornLine == <<<<"{", "">>>>

\* The exception WAL.replay raises: json.loads raises JSONDecodeError on a
\* line it cannot parse, and replay does not catch it.
ReplayErr(w) ==
    IF \E i \in 1..Len(w) : w[i] = TornLine THEN "JSONDecodeError" ELSE "ok"

\* An engine object exists: once wal.log holds a torn line LSMEngine.__init__
\* raises in WAL.replay on every open of the directory.
EngineUp == ReplayErr(wal) = "ok"

\* WAL.replay: fold the lines, in order, into a dict (the value it returns
\* when no line raises).
RECURSIVE ReplayFrom(_, _)
ReplayFrom(w, mem) ==
    IF w = <<>> THEN mem
    ELSE LET rec == Head(w)
             op == JsonGet(rec, "op")
             m2 == IF op = "put" THEN DictSet(mem, JsonGet(rec, "key"), JsonGet(rec, "value"))
                   ELSE IF op = "del" THEN DictSet(mem, JsonGet(rec, "key"), None)
                   ELSE mem
         IN  ReplayFrom(Tail(w), m2)
Replay(w) == ReplayFrom(w, <<>>)

(***************************************************************************)
(* storage/sstable.py                                                      *)
(***************************************************************************)
\* SSTable.__init__ assigns self.index = {} and then raises TypeError on the
\* second target of the chained assignment: no SSTable object is ever built.
SSTableInitErr == "TypeError"

\* SSTable.write raises TypeError at its second statement, before the data
\* file is opened: it writes nothing and returns nothing.
SSTableWriteErr == "TypeError"

\* str comparison of the keys of the model: "u:1" < "us:1" < "us:2".
KeyOrder == <<K(Files, "1"), K(Users, "1"), K(Users, "2")>>
Rank(k) == CHOOSE i \in 1..Len(KeyOrder) : KeyOrder[i] = k
KeyLeq(a, b) == Rank(a) <= Rank(b)

\* SSTable.get on a table [recs |-> <<key, value>> sorted by key, index |->
\* the indexed keys].  With a candidate (an indexed key <= key) the method
\* computes start_offset and falls off its end, returning None; the scan is
\* inside the else branch, from offset 0, and returns the record's value
\* (None for a tombstone) or None when the key is passed or not met.
RECURSIVE ScanFor(_, _)
ScanFor(recs, key) ==
    IF recs = <<>> THEN None
    ELSE IF Head(recs)[1] = key THEN Head(recs)[2]
    ELSE IF ~KeyLeq(Head(recs)[1], key) THEN None
    ELSE ScanFor(Tail(recs), key)
SSTableGet(sst, key) ==
    IF \E c \in sst.index : KeyLeq(c, key)
    THEN None
    ELSE ScanFor(sst.recs, key)

(***************************************************************************)
(* storage/lsm.py                                                          *)
(***************************************************************************)
\* LSMEngine.get: the memtable entry if the key is in the memtable, else the
\* first SSTable, newest first, whose get is not None
\* (v is not None or (v is None and _exists_in_sstable(..)) is v is not None).
RECURSIVE GetSST(_, _)
GetSST(ssts, key) ==
    IF ssts = <<>> THEN None
    ELSE LET v == SSTableGet(ssts[Len(ssts)], key)
         IN  IF v # None THEN v ELSE GetSST(SubSeq(ssts, 1, Len(ssts) - 1), key)
EngineGet(mem, ssts, key) ==
    IF DictHas(mem, key) THEN DictGet(mem, key) ELSE GetSST(ssts, key)
Get(key) == EngineGet(memtable, sstables, key)

\* LSMEngine.flush: "ok" without effect on an empty memtable, else the
\* TypeError of SSTable.write, raised before sstables.append, wal.reset and
\* memtable.clear.
FlushErr(mem) == IF mem = <<>> THEN "ok" ELSE SSTableWriteErr

\* LSMEngine.put as a function of the engine state: the WAL append (ValueError
\* on a closed handle, nothing done), the memtable assignment, the flush at
\* the threshold.
PutResult(w, open, mem, key, value) ==
    IF ~open THEN [wal |-> w, memtable |-> mem, err |-> "ValueError"]
    ELSE LET w2 == AppendPut(w, key, value)
             m2 == DictSet(mem, key, value)
         IN  [wal |-> w2, memtable |-> m2,
              err |-> IF Len(m2) >= MemtableLimit THEN FlushErr(m2) ELSE "ok"]


(***************************************************************************)
(* Documents and their stored form                                         *)
(***************************************************************************)
\* A document is a dict field -> value; doc.get(field) is None when missing.
DocGet(doc, field) == IF field \in DOMAIN doc THEN doc[field] ELSE NoneVal

\* Collection._from_stored / json.dumps of a document: the JSON text is held
\* as its set of members; json.loads rebuilds the dict from the members.
Dumps(doc) == {<<f, doc[f]>> : f \in DOMAIN doc}
Loads(text) == [f \in {m[1] : m \in text} |-> (CHOOSE m \in text : m[1] = f)[2]]

(***************************************************************************)
(* document/schema.py                                                      *)
(***************************************************************************)
\* Schema(fields): the fields in declaration order, each with its rules.
\* UserSchema is the user_schema of main.py; FileSchema is its file_schema
\* with filename declared unique and size declared first.
UserSchema ==
    << <<"name", ("type" :> "str") @@ ("unique" :> TRUE) @@ ("length" :> ("gte" :> 3))>>,
       <<"age",  ("type" :> "int") @@ ("$gte" :> 0) @@ ("$lte" :> 100)>>,
       <<"role", ("type" :> "str") @@ ("enum" :> {StrV("admin"), StrV("member"), StrV("guest")})>> >>
FileSchema ==
    << <<"size", ("type" :> "int") @@ ("$gte" :> 0)>>,
       <<"filename", ("type" :> "str") @@ ("unique" :> TRUE) @@ ("length" :> ("gte" :> 1))>>,
       <<"user_id", ("type" :> "str") @@ ("ref" :> Users)>> >>
SchemaOf(name) == IF name = Users THEN UserSchema ELSE FileSchema

\* rules.get("unique")
IsUnique(rules) == "unique" \in DOMAIN rules /\ rules["unique"]
\* Schema.__init__: the fields that get a set in _unique_values.
UniqueFields(schema) == {schema[i][1] : i \in {j \in 1..Len(schema) : IsUnique(schema[j][2])}}
\* Faulty variant of the test: the existing documents are never gathered.
HasUniqueRuleNever(schema) == FALSE

\* Collection.insert: any("unique" in rules for rules in fields.values())
HasUniqueRule(schema) == \E i \in 1..Len(schema) : "unique" \in DOMAIN schema[i][2]

\* isinstance(val, rules["type"])
IsInstance(val, type) == (type = "str" /\ IsStr(val)) \/ (type = "int" /\ IsInt(val))

\* The length rules of a str value: the first test that fails raises.
LengthFails(val, lr) ==
    LET n == Len(val.str)
    IN  \/ "gt" \in DOMAIN lr /\ ~(n > lr["gt"])
        \/ "gte" \in DOMAIN lr /\ ~(n >= lr["gte"])
        \/ "lt" \in DOMAIN lr /\ ~(n < lr["lt"])
        \/ "lte" \in DOMAIN lr /\ ~(n <= lr["lte"])

\* The numeric rules of an int value.
NumericFails(val, rules) ==
    LET n == val.int
    IN  \/ "$gt" \in DOMAIN rules /\ ~(n > rules["$gt"])
        \/ "$gte" \in DOMAIN rules /\ ~(n >= rules["$gte"])
        \/ "$lt" \in DOMAIN rules /\ ~(n < rules["$lt"])
        \/ "$lte" \in DOMAIN rules /\ ~(n <= rules["$lte"])

\* Collection.get(doc_id) of collection name: the parsed engine value or None.
CollGet(mem, ssts, name, id) ==
    LET raw == EngineGet(mem, ssts, K(name, id))
    IN  IF raw # None THEN Some(Loads(raw[1])) ELSE None

\* not ref_collection.get(val): None and the empty dict are falsy.
RefMissing(mem, ssts, name, val) ==
    LET d == CollGet(mem, ssts, name, val.str)
    IN  d = None \/ DOMAIN d[1] = {}

\* The body of Schema.validate's loop for one field: the kind of the error
\* it raises, or "ok".  existing is the list of existing documents, colls
\* the names in the collections dict, reg the schema's _unique_values.
FieldErr(field, rules, doc, existing, colls, reg, mem, ssts) ==
    LET val == DocGet(doc, field)
    IN  IF val = NoneVal THEN "ok"
        ELSE IF "type" \in DOMAIN rules /\ ~IsInstance(val, rules["type"]) THEN "type"
        ELSE IF IsUnique(rules)
                /\ (\/ \E i \in 1..Len(existing) : DocGet(existing[i], field) = val
                    \/ val \in reg[field]) THEN "unique"
        ELSE IF IsStr(val) /\ "length" \in DOMAIN rules /\ LengthFails(val, rules["length"])
             THEN "length"
        ELSE IF IsInt(val) /\ NumericFails(val, rules) THEN "numeric"
        ELSE IF "enum" \in DOMAIN rules /\ val \notin rules["enum"] THEN "enum"
        ELSE IF "ref" \in DOMAIN rules /\ rules["ref"] \in colls
                /\ RefMissing(mem, ssts, rules["ref"], val) THEN "reference"
        ELSE "ok"

\* Schema.validate: the fields in order, the first error raised.
RECURSIVE ValidateFrom(_, _, _, _, _, _, _, _)
ValidateFrom(i, schema, doc, existing, colls, reg, mem, ssts) ==
    IF i > Len(schema) THEN "ok"
    ELSE LET e == FieldErr(schema[i][1], schema[i][2], doc, existing, colls, reg, mem, ssts)
         IN  IF e # "ok" THEN e
             ELSE ValidateFrom(i + 1, schema, doc, existing, colls, reg, mem, ssts)
Validate(schema, doc, existing, colls, reg, mem, ssts) ==
    ValidateFrom(1, schema, doc, existing, colls, reg, mem, ssts)

\* Schema.register: add the document's values of the unique fields.
Register(reg, doc) ==
    [f \in DOMAIN reg |-> IF DocGet(doc, f) # NoneVal THEN reg[f] \cup {DocGet(doc, f)} ELSE reg[f]]

\* Schema(fields)._unique_values of a new Schema object.
NewRegistry(schema) == [f \in UniqueFields(schema) |-> {}]

(***************************************************************************)
(* document/collection.py                                                  *)
(***************************************************************************)
\* Faulty variant of the slice: it starts one character early.
IdOfOneEarly(k, prefix) == SubSeq(k, Len(prefix), Len(k))

\* k[len(self.prefix):]
IdOf(k, prefix) == SubSeq(k, Len(prefix) + 1, Len(k))

\* Faulty variant of the first loop: the scan skips the memtable.
ScanMemSkipped(mem, prefix) == <<>>

\* Collection._scan_docs, first loop: the memtable entries with the prefix
\* and a value that is not None, in dict order, as <<doc_id, doc>>.
RECURSIVE ScanMem(_, _)
ScanMem(mem, prefix) ==
    IF mem = <<>> THEN <<>>
    ELSE LET k == Head(mem)[1]
             v == Head(mem)[2]
         IN  IF ~StartsWith(k, prefix) \/ v = None THEN ScanMem(Tail(mem), prefix)
             ELSE <<<<IdOf(k, prefix), Loads(v[1])>>>> \o ScanMem(Tail(mem), prefix)

\* Second loop, one SSTable: the records with the prefix whose id is not in
\* seen and whose value is not None are yielded and their id added to seen;
\* a record whose value is None is skipped and its id is not added.
RECURSIVE ScanRecs(_, _, _)
ScanRecs(recs, prefix, out) ==
    IF recs = <<>> THEN out
    ELSE LET k == Head(recs)[1]
             v == Head(recs)[2]
             seen == {out[i][1] : i \in 1..Len(out)}
         IN  IF ~StartsWith(k, prefix) \/ IdOf(k, prefix) \in seen \/ v = None
             THEN ScanRecs(Tail(recs), prefix, out)
             ELSE ScanRecs(Tail(recs), prefix, Append(out, <<IdOf(k, prefix), Loads(v[1])>>))

\* Second loop, the SSTables newest first.
RECURSIVE ScanSSTs(_, _, _)
ScanSSTs(ssts, prefix, out) ==
    IF ssts = <<>> THEN out
    ELSE ScanSSTs(SubSeq(ssts, 1, Len(ssts) - 1), prefix,
                  ScanRecs(ssts[Len(ssts)].recs, prefix, out))

ScanDocs(mem, ssts, name) == ScanSSTs(ssts, Prefix(name), ScanMem(mem, Prefix(name)))

\* Collection.find_all() without filter and limit: every scanned document.
FindAll(name) == ScanDocs(memtable, sstables, name)

\* [d._doc for d in self.find_all()]
DocsOf(found) == [i \in 1..Len(found) |-> found[i][2]]

(***************************************************************************)
(* The calls of the model                                                  *)
(***************************************************************************)
Doc1(f, v) == f :> v
Doc2(f, v, g, w) == (f :> v) @@ (g :> w)
Doc3(f, v, g, w, h, x) == (f :> v) @@ (g :> w) @@ (h :> x)

\* Documents passed to users.insert.
UserDocs ==
    { Doc3("name", StrV("Bob"), "age", IntV(30), "role", StrV("member")),
      Doc1("name", StrV("Ann")),
      Doc1("age", IntV(30)),
      Doc1("name", StrV("Al")),
      Doc1("name", IntV(7)),
      Doc2("name", StrV("Bob"), "age", IntV(150)),
      Doc2("name", StrV("Ann"), "role", StrV("root")) }

\* Documents passed to files.insert.
FileDocs ==
    { Doc3("size", IntV(5), "filename", StrV("f"), "user_id", StrV("1")),
      Doc1("filename", StrV("g")),
      Doc1("user_id", StrV("9")),
      Doc2("size", IntV(0 - 1), "filename", StrV("f")),
      Doc1("filename", StrV("")),
      Doc1("size", StrV("big")) }

DocsFor(name) == IF name = Users THEN UserDocs ELSE FileDocs

\* The updates passed to update.
UpdatesFor(name) ==
    IF name = Users THEN {Doc1("age", IntV(150)), Doc1("role", StrV("admin"))}
    ELSE {Doc1("size", IntV(0 - 1))}

\* The collections dict passed to insert: absent, or the users collection.
CollArgs == {{}, {Users}}

\* The value written by direct engine.put calls: the text of {"raw": "1"}.
RawValue == Dumps(Doc1("raw", StrV("1")))

\* latest[k]: the key was never put ("never"), its latest write is a put
\* ("put"), or a delete that followed a put ("putdel"; "putdelc" once
\* compact() was called after that delete).
Never == [st |-> "never", v |-> None]
LatestPut(value) == [st |-> "put", v |-> value]
LatestDel(prev) == IF prev.st = "never" THEN prev ELSE [st |-> "putdel", v |-> None]
LatestCompacted(prev) == [st |-> IF prev.st = "putdel" THEN "putdelc" ELSE prev.st, v |-> prev.v]

\* last: the operation, the exception it raised ("ok" if none) and, for a
\* reopen, whether it directly follows a close() call.
Result(op, err) == [op |-> op, err |-> err, afterClose |-> op = "reopen" /\ last.op = "close"]

Init ==
    /\ wal = <<>>
    /\ walOpen = TRUE
    /\ memtable = <<>>
    /\ sstables = <<>>
    /\ sstFiles = {}
    /\ uniqueValues = [n \in Names |-> NewRegistry(SchemaOf(n))]
    /\ last = [op |-> "open", err |-> "ok", afterClose |-> FALSE]
    /\ latest = [k \in Keys |-> Never]
    /\ flushed = FALSE

\* engine.put(key, value)
Put(key, value) ==
    /\ EngineUp
    /\ Len(wal) < MaxWal
    /\ LET r == PutResult(wal, walOpen, memtable, key, Some(value))
       IN  /\ wal' = r.wal
           /\ memtable' = r.memtable
           /\ last' = Result("put", r.err)
           /\ latest' = IF walOpen THEN [latest EXCEPT ![key] = LatestPut(Some(value))]
                        ELSE latest
           /\ flushed' = (flushed \/ (walOpen /\ Len(r.memtable) >= MemtableLimit))
    /\ UNCHANGED <<walOpen, sstables, sstFiles, uniqueValues>>

\* engine.delete(key): self.wal.append_del raises AttributeError; the
\* memtable assignment and the threshold test are not reached.
Delete(key) ==
    /\ EngineUp
    /\ last' = Result("delete", "AttributeError")
    /\ latest' = IF walOpen THEN [latest EXCEPT ![key] = LatestDel(@)] ELSE latest
    /\ UNCHANGED <<engine, uniqueValues, flushed>>

\* engine.flush()
Flush ==
    /\ EngineUp
    /\ last' = Result("flush", FlushErr(memtable))
    /\ flushed' = (flushed \/ memtable # <<>>)
    /\ UNCHANGED <<engine, uniqueValues, latest>>

\* engine.compact(): returns at once when the SSTable list is empty; with
\* SSTables it would merge them and raise in SSTable.write before removing
\* any file.
Compact ==
    /\ EngineUp
    /\ last' = Result("compact", IF sstables = <<>> THEN "ok" ELSE SSTableWriteErr)
    /\ latest' = [k \in Keys |-> LatestCompacted(latest[k])]
    /\ UNCHANGED <<engine, uniqueValues, flushed>>

\* Faulty variant of close: its flush retires the WAL before it writes the SSTable.
CloseRetiresWalFirst ==
    /\ EngineUp
    /\ last' = Result("close", FlushErr(memtable))
    /\ walOpen' = IF FlushErr(memtable) = "ok" THEN FALSE ELSE walOpen
    /\ wal' = <<>>
    /\ flushed' = (flushed \/ memtable # <<>>)
    /\ UNCHANGED <<memtable, sstables, sstFiles, uniqueValues, latest>>

\* engine.close(): flush, then wal.close(); the handle stays open when the
\* flush raises.
Close ==
    /\ EngineUp
    /\ last' = Result("close", FlushErr(memtable))
    /\ walOpen' = IF FlushErr(memtable) = "ok" THEN FALSE ELSE walOpen
    /\ flushed' = (flushed \/ memtable # <<>>)
    /\ UNCHANGED <<wal, memtable, sstables, sstFiles, uniqueValues, latest>>

\* The process is lost while WAL.append_put writes the line of a put: a
\* prefix of the line is in wal.log, the put has not returned, and the
\* engine, its memtable, its file handle and the Schema objects are gone.
TornAppend ==
    /\ EngineUp
    /\ walOpen
    /\ Len(wal) < MaxWal
    /\ wal' = Append(wal, TornLine)
    /\ walOpen' = FALSE
    /\ memtable' = <<>>
    /\ uniqueValues' = [n \in Names |-> NewRegistry(SchemaOf(n))]
    /\ last' = Result("crash", "ok")
    /\ UNCHANGED <<sstables, sstFiles, ghost>>

\* DocumentStore(data_dir) on the same directory, in the same process or
\* after a process loss: LSMEngine.__init__ opens wal.log, replays it and
\* registers the sst_*.jsonl files in name order (there are none; one would
\* raise in SSTable.__init__).  The collections are built anew, on the same
\* Schema objects (sameSchemas) or on new ones.
Reopen(sameSchemas) ==
    IF ReplayErr(wal) # "ok"
    THEN /\ last' = Result("reopen", ReplayErr(wal))
         /\ UNCHANGED <<engine, uniqueValues, ghost>>
    ELSE IF sstFiles # {}
    THEN /\ last' = Result("reopen", SSTableInitErr)
         /\ UNCHANGED <<engine, uniqueValues, ghost>>
    ELSE /\ walOpen' = TRUE
         /\ memtable' = Replay(wal)
         /\ sstables' = <<>>
         /\ uniqueValues' = IF sameSchemas THEN uniqueValues
                            ELSE [n \in Names |-> NewRegistry(SchemaOf(n))]
         /\ last' = Result("reopen", "ok")
         /\ UNCHANGED <<wal, sstFiles, ghost>>

\* Collection.insert(doc, doc_id, collections) on collection name.
Insert(name, id, doc, colls) ==
    /\ EngineUp
    /\ Len(wal) < MaxWal
    /\ LET schema == SchemaOf(name)
           existing == IF HasUniqueRule(schema) THEN DocsOf(FindAll(name)) ELSE <<>>
           e1 == Validate(schema, doc, existing, colls, uniqueValues[name], memtable, sstables)
           \* _to_stored validates again, without existing documents and collections
           e2 == Validate(schema, doc, <<>>, {}, uniqueValues[name], memtable, sstables)
           r  == PutResult(wal, walOpen, memtable, K(name, id), Some(Dumps(doc)))
       IN  IF e1 # "ok" \/ e2 # "ok"
           THEN /\ last' = Result("insert", IF e1 # "ok" THEN e1 ELSE e2)
                /\ UNCHANGED <<engine, uniqueValues, ghost>>
           ELSE /\ wal' = r.wal
                /\ memtable' = r.memtable
                \* register is reached only when put returns
                /\ uniqueValues' = IF r.err = "ok"
                                   THEN [uniqueValues EXCEPT ![name] = Register(@, doc)]
                                   ELSE uniqueValues
                /\ last' = Result("insert", r.err)
                /\ latest' = IF walOpen
                             THEN [latest EXCEPT ![K(name, id)] = LatestPut(Some(Dumps(doc)))]
                             ELSE latest
                /\ flushed' = (flushed \/ (walOpen /\ Len(r.memtable) >= MemtableLimit))
                /\ UNCHANGED <<walOpen, sstables, sstFiles>>

\* Collection.update(doc_id, updates, collections): KeyError when get returns
\* None, else AttributeError at "if self.model_cls"; nothing is written.
UpdateErr(name, id) ==
    IF CollGet(memtable, sstables, name, id) = None THEN "KeyError" ELSE "AttributeError"
Update(name, id, updates, colls) ==
    /\ EngineUp
    /\ last' = Result("update", UpdateErr(name, id))
    /\ UNCHANGED <<engine, uniqueValues, ghost>>

Next ==
    \/ \E k \in Keys : Put(k, RawValue)
    \/ \E k \in Keys : Delete(k)
    \/ Flush
    \/ Compact
    \/ Close
    \/ TornAppend
    \/ \E b \in BOOLEAN : Reopen(b)
    \/ \E n \in Names : \E i \in Ids(n), d \in DocsFor(n), c \in CollArgs : Insert(n, i, d, c)
    \/ \E n \in Names : \E i \in Ids(n), u \in UpdatesFor(n) : Update(n, i, u, {})

Spec == Init /\ [][Next]_vars

(***************************************************************************)
(* Properties                                                              *)
(***************************************************************************)
\* The identifiers find_all returns for a collection.
FoundIds(name) == {FindAll(name)[i][1] : i \in 1..Len(FindAll(name))}

\* C1: for every key, get returns absent if the key was never written, the
\* value of the most recent put otherwise, and absent if the most recent
\* write was a delete.
C1_GetReturnsLatestWrite == \A k \in Keys : Get(k) = latest[k].v

\* C2: whenever an engine exists and no operation is in progress, folding
\* the records of wal.log in order yields exactly the memtable.
C2_WalFoldIsMemtable == EngineUp => Replay(wal) = memtable
C2_Witness ==
    /\ last.op = "reopen"
    /\ Len(wal) = 2
    /\ Len(memtable) = 1

\* C3: close() followed by a reopen of the data directory returns for every
\* key the get result of before the close: neither the close nor the reopen
\* changes the result of get for any key.
C3_CloseReopenKeepsGet ==
    [][last'.op \in {"close", "reopen"} => \A k \in Keys : Get(k)' = Get(k)]_vars
C3_Witness ==
    /\ last.op = "reopen"
    /\ last.afterClose
    /\ Len(memtable) = 2
    /\ \E k \in Keys : latest[k].st = "putdel"

\* C4: a flush of a non-empty memtable writes the new SSTable, then retires
\* the WAL and clears the memtable.
C4_FlushWritesThenRetires ==
    [][(last'.op = "flush" /\ memtable # <<>>)
        => (Len(sstables') = Len(sstables) + 1 /\ wal' = <<>> /\ memtable' = <<>>)]_vars

\* C5: find_all does not return a document that was written with a value
\* and then deleted.
C5_DeletedNotFound ==
    \A n \in Names : \A i \in Ids(n) :
        latest[K(n, i)].st \in {"putdel", "putdelc"} => <<i>> \notin FoundIds(n)

\* C6: after compact() on an engine into which a non-empty memtable was
\* flushed, the SSTable list is a single table without tombstone records
\* and with one record per key.
C6_CompactLeavesOneTable ==
    (last.op = "compact" /\ flushed) =>
        /\ Len(sstables) = 1
        /\ \A i \in 1..Len(sstables[1].recs) : sstables[1].recs[i][2] # None
        /\ \A i, j \in 1..Len(sstables[1].recs) :
               sstables[1].recs[i][1] = sstables[1].recs[j][1] => i = j

\* The kinds of validation error Schema.validate raises.
ValidationErrs == {"type", "unique", "length", "numeric", "enum", "reference"}

\* A live document of collection n holds, in a field declared unique, the
\* value that document d holds in it.
DupLive(n, d) ==
    \E f \in UniqueFields(SchemaOf(n)) : \E j \in Ids(n) :
        /\ latest[K(n, j)].st = "put"
        /\ DocGet(d, f) # NoneVal
        /\ DocGet(Loads(latest[K(n, j)].v[1]), f) = DocGet(d, f)

\* Document d passes every rule checked before the unique rule of the first
\* unique field of collection n: the rules of the fields declared before it
\* and its own type rule.
EarlierRulesOk(n, d, c) ==
    LET schema == SchemaOf(n)
        u == CHOOSE i \in 1..Len(schema) :
                 /\ IsUnique(schema[i][2])
                 /\ \A j \in 1..(i - 1) : ~IsUnique(schema[j][2])
    IN  /\ \A j \in 1..(u - 1) :
               FieldErr(schema[j][1], schema[j][2], d, <<>>, c,
                        NewRegistry(schema), memtable, sstables) = "ok"
        /\ "type" \in DOMAIN schema[u][2]
               => IsInstance(DocGet(d, schema[u][1]), schema[u][2]["type"])

\* C9 (as claimed): an insert of a document whose value of a unique field
\* equals that of a live document fails with the uniqueness error.
C9_DuplicateRaisesUnique ==
    [][\A n \in Names : \A i \in Ids(n), d \in DocsFor(n), c \in CollArgs :
          (last'.op = "insert" /\ DupLive(n, d) /\ Insert(n, i, d, c))
              => last'.err = "unique"]_vars

\* C9 (amended): such an insert fails with a validation error; the error is
\* the uniqueness error when the document passes every rule checked before
\* the unique rule.
C9_DuplicateRejected ==
    [][\A n \in Names : \A i \in Ids(n), d \in DocsFor(n), c \in CollArgs :
          (last'.op = "insert" /\ DupLive(n, d) /\ Insert(n, i, d, c)) =>
              /\ last'.err \in ValidationErrs
              /\ EarlierRulesOk(n, d, c) => last'.err = "unique"]_vars
\* a duplicate was rejected on the scan alone: the registry is empty (new
\* Schema objects after a reopen) and the live document is in the memtable
C9_Witness ==
    /\ last = [op |-> "insert", err |-> "unique", afterClose |-> FALSE]
    /\ Len(wal) = 1
    /\ \A n \in Names : uniqueValues[n] = NewRegistry(SchemaOf(n))
    /\ \E n \in Names : \E d \in DocsFor(n) : DupLive(n, d)

\* Document d breaks a type, length, numeric or enum rule of collection n.
BreaksRule(n, d) ==
    Validate(SchemaOf(n), d, <<>>, {}, NewRegistry(SchemaOf(n)), <<>>, <<>>) # "ok"

\* Collection.update, merge semantics: the current document overlaid with
\* the updates.
Merged(cur, updates) ==
    [f \in DOMAIN cur \cup DOMAIN updates |-> IF f \in DOMAIN updates THEN updates[f] ELSE cur[f]]

\* C10: an insert or update whose document violates a schema rule raises a
\* validation error and leaves the WAL, the memtable, the SSTable list and
\* the registry of unique values as they were.
C10_RejectedLeavesNoTrace ==
    [][/\ \A n \in Names : \A i \in Ids(n), d \in DocsFor(n), c \in CollArgs :
             (/\ last'.op = "insert"
              /\ BreaksRule(n, d) \/ DupLive(n, d)
              /\ Insert(n, i, d, c)) =>
                 (last'.err \in ValidationErrs /\ UNCHANGED <<engine, uniqueValues>>)
       /\ \A n \in Names : \A i \in Ids(n), u \in UpdatesFor(n) :
             (/\ last'.op = "update"
              /\ CollGet(memtable, sstables, n, i) # None
              /\ BreaksRule(n, Merged(CollGet(memtable, sstables, n, i)[1], u))
              /\ Update(n, i, u, {})) =>
                 (last'.err \in ValidationErrs /\ UNCHANGED <<engine, uniqueValues>>)]_vars

\* The live document of collection n under identifier i: the latest write
\* of its key is a put.
IsLive(n, i) == latest[K(n, i)].st = "put"
LiveDoc(n, i) == Loads(latest[K(n, i)].v[1])

\* C11: no two live documents of a collection hold the same value in a
\* field declared unique, whatever inserts (accepted or rejected, on new or
\* existing identifiers) and updates were made.
C11_UniqueAmongLive ==
    \A n \in Names : \A f \in UniqueFields(SchemaOf(n)) : \A i, j \in Ids(n) :
        (i # j /\ IsLive(n, i) /\ IsLive(n, j) /\ DocGet(LiveDoc(n, i), f) # NoneVal)
            => DocGet(LiveDoc(n, i), f) # DocGet(LiveDoc(n, j), f)
\* two documents inserted under different identifiers are live, each with
\* a value in the unique field
C11_Witness ==
    /\ last.op = "insert"
    /\ \E n \in Names : \E f \in UniqueFields(SchemaOf(n)) : \E i, j \in Ids(n) :
           /\ i # j
           /\ IsLive(n, i) /\ IsLive(n, j)
           /\ DocGet(LiveDoc(n, i), f) # NoneVal
           /\ DocGet(LiveDoc(n, j), f) # NoneVal

\* Patch u leaves every unique field of collection n as document cur has
\* it, and cur holds a value in one of them.
KeepsUnique(n, cur, u) ==
    /\ \A f \in UniqueFields(SchemaOf(n)) : f \notin DOMAIN u
    /\ \E f \in UniqueFields(SchemaOf(n)) : DocGet(cur, f) # NoneVal

\* C12: an update of an existing document whose merged document is valid
\* and collides on a unique field only with the document's own previous
\* version succeeds and stores the merged document.
C12_UpdateKeepsOwnUnique ==
    [][\A n \in Names : \A i \in Ids(n), u \in UpdatesFor(n) :
          (/\ last'.op = "update"
           /\ CollGet(memtable, sstables, n, i) # None
           /\ KeepsUnique(n, CollGet(memtable, sstables, n, i)[1], u)
           /\ ~BreaksRule(n, Merged(CollGet(memtable, sstables, n, i)[1], u))
           /\ Update(n, i, u, {})) =>
              /\ last'.err = "ok"
              /\ CollGet(memtable', sstables', n, i)
                     = Some(Merged(CollGet(memtable, sstables, n, i)[1], u))]_vars

\* Document d holds a value in a field of collection n that carries a ref
\* rule, and no live document of the referenced collection has that value
\* as its identifier.
DanglingRef(n, d) ==
    \E j \in 1..Len(SchemaOf(n)) :
        LET f == SchemaOf(n)[j][1]
            rules == SchemaOf(n)[j][2]
        IN  /\ "ref" \in DOMAIN rules
            /\ DocGet(d, f) # NoneVal
            /\ ~(DocGet(d, f).str \in Ids(rules["ref"]) /\ IsLive(rules["ref"], DocGet(d, f).str))

\* C13: an insert of a document that breaks no other rule and holds, in a
\* field with a ref rule, a value that is not the identifier of a live
\* document of the referenced collection fails with the reference error.
C13_DanglingRefRejected ==
    [][\A n \in Names : \A i \in Ids(n), d \in DocsFor(n), c \in CollArgs :
          (/\ last'.op = "insert"
           /\ DanglingRef(n, d)
           /\ ~BreaksRule(n, d) /\ ~DupLive(n, d)
           /\ Insert(n, i, d, c)) => last'.err = "reference"]_vars

\* C14: opening an engine whose wal.log ends with a torn line succeeds, and
\* the memtable it builds is the fold of the records before the torn line.
C14_TornTailTolerated ==
    (last.op = "reopen" /\ wal # <<>> /\ wal[Len(wal)] = TornLine) =>
        /\ last.err = "ok"
        /\ memtable = Replay(SubSeq(wal, 1, Len(wal) - 1))

\* The step is a call on collection n or on one of its keys, or a flush or
\* a compaction.
CallOn(n) ==
    \/ \E i \in Ids(n) : Put(K(n, i), RawValue) \/ Delete(K(n, i))
    \/ \E i \in Ids(n), d \in DocsFor(n), c \in CollArgs : Insert(n, i, d, c)
    \/ \E i \in Ids(n), u \in UpdatesFor(n) : Update(n, i, u, {})
    \/ Flush
    \/ Compact

\* find_all of collection n returns only documents stored under a key
\* n's prefix + identifier, with the value stored there.
OwnDocsOnly(n) ==
    \A x \in 1..Len(FindAll(n)) : \E i \in Ids(n) :
        /\ FindAll(n)[x][1] = <<i>>
        /\ Get(K(n, i)) = Some(Dumps(FindAll(n)[x][2]))

\* C16: two collections on one engine are isolated by their key prefixes:
\* find_all returns only documents stored under the collection's own
\* prefix, and no insert, update, put, delete, flush or compaction on one
\* collection changes get or find_all of the other.
C16_PrefixIsolation ==
    /\ [](\A n \in Names : OwnDocsOnly(n))
    /\ [][\A n \in Names : \A m \in Names \ {n} :
            (/\ last'.op \in {"put", "delete", "insert", "update", "flush", "compact"}
             \* get and find_all are functions of the memtable and the SSTables
             /\ <<memtable, sstables>>' # <<memtable, sstables>>
             /\ CallOn(n)) =>
                /\ FindAll(m)' = FindAll(m)
                /\ \A j \in Ids(m) :
                       CollGet(memtable', sstables', m, j) = CollGet(memtable, sstables, m, j)]_vars
\* both collections hold a document and the last call was an accepted
\* insert
C16_Witness ==
    /\ last.op = "insert"
    /\ last.err \notin ValidationErrs
    /\ \A n \in Names : FindAll(n) # <<>>

\* Some SSTable of the engine holds a record for key k.
InSomeSSTable(k) ==
    \E t \in 1..Len(sstables) : \E r \in 1..Len(sstables[t].recs) : sstables[t].recs[r][1] = k

\* C17: after put(K, V), delete(K) and compact(), then close() and a
\* reopen, get(K) returns absent and no SSTable holds a record for K.
C17_DeletedGoneAfterCompact ==
    \A k \in Keys :
        (last.op = "reopen" /\ last.afterClose /\ latest[k].st = "putdelc")
            => (Get(k) = None /\ ~InSomeSSTable(k))

\* C18: a put that makes the memtable reach memtable_limit triggers exactly
\* one flush (one SSTable added, the WAL rotated) and returns with the
\* memtable empty; a put that leaves it below the limit triggers no flush.
C18_ThresholdFlushesOnce ==
    [][\A k \in Keys :
          (last'.op = "put" /\ walOpen /\ Put(k, RawValue)) =>
              IF Len(DictSet(memtable, k, Some(RawValue))) >= MemtableLimit
              THEN /\ Len(sstables') = Len(sstables) + 1
                   /\ wal' = <<>>
                   /\ memtable' = <<>>
              ELSE /\ sstables' = sstables
                   /\ wal' = AppendPut(wal, k, Some(RawValue))
                   /\ memtable' = DictSet(memtable, k, Some(RawValue))]_vars

\* C20: find_all without filter and limit returns each identifier at most
\* once, and returns every document whose latest write is a put with the
\* value of that put, whatever older versions of it were written.
C20_FindAllLatestOnce ==
    EngineUp =>
        \A n \in Names :
            /\ \A x, y \in 1..Len(FindAll(n)) :
                   FindAll(n)[x][1] = FindAll(n)[y][1] => x = y
            /\ \A i \in Ids(n) :
                   IsLive(n, i) =>
                       \E x \in 1..Len(FindAll(n)) : FindAll(n)[x] = <<<<i>>, LiveDoc(n, i)>>
\* a live document was written twice with different values: the older
\* version is the first record of wal.log, the latest the second
C20_Witness ==
    /\ EngineUp
    /\ Len(wal) = 2
    /\ JsonGet(wal[1], "key") = JsonGet(wal[2], "key")
    /\ JsonGet(wal[1], "value") # JsonGet(wal[2], "value")
    /\ \E n \in Names : \E i \in Ids(n) :
           /\ JsonGet(wal[2], "key") = K(n, i)
           /\ IsLive(n, i)
           /\ FindAll(n) = <<<<<<i>>, LiveDoc(n, i)>>>>

\* C21: the SSTable written by a flush from the records of the memtable
\* answers get with the stored value for every key it holds and with not
\* found for every other key.
C21_WrittenTableServesKeys ==
    [][(last'.op = "flush" /\ memtable # <<>>) =>
          /\ Len(sstables') = Len(sstables) + 1
          /\ \A k \in Keys :
                 SSTableGet(sstables'[Len(sstables')], k)
                     = IF DictHas(memtable, k) THEN DictGet(memtable, k) ELSE None]_vars
====
